---------------------------- MODULE Spec2Model ----------------------------
(***************************************************************************)
(* Interactive office canvas (OfficeCanvasPixi): the registry of per-agent *)
(* visual state, the per-frame interpolation, zone hit-testing, the        *)
(* pointer handlers (select / drag) and the reconcile effect that merges   *)
(* the roster of the store into the registry.                              *)
(*                                                                         *)
(* Positions are whole pixels; the only non-integral arithmetic of the     *)
(* source, the eased interpolation, is computed in integers and floored.   *)
(* Time is the value of performance.now() in milliseconds.                 *)
(***************************************************************************)
EXTENDS Integers, Sequences, FiniteSets

VARIABLES
    agents,                 \* store: the roster, id -> [x, y]
    agentsRef,              \* agentsRef.current
    agentStatesRef,         \* agentStatesRef.current: Map id -> AgentState
    lightingContainerRef,   \* TRUE once the async PixiJS init has completed
    dragStateRef,           \* <<>> (null) or <<DragState>>
    pressTarget,            \* display object the pointer went down on
    selectedAgentIdRef,     \* id or NULL
    selectedZoneLabelRef,   \* label or NULL
    selectedAgent,          \* React state: id shown in the agent panel or NULL
    selectedZone,           \* React state: <<>> or <<[label, agents]>>
    now,                    \* performance.now()
    emitted,                \* events sent to the host by the last handler
    meetingMode,            \* store: the "Company Meeting" switch
    intervalId,             \* TRUE while the 900 ms tick interval is set
    destroyed,              \* the init effect's flag: its cleanup has run
    app,                    \* the PIXI.Application: "pending" (app.init() awaited), "running",
                            \* "discarded" (destroyed when init resolved), "destroyed" (by the cleanup)
    pressTarget2,           \* display object a second pointer went down on
    hoveredZoneLabelRef,    \* label or NULL
    qx, qy,                 \* a point handed to the hit-test
    qzone, qhits            \* what getZoneForPosition returns for it; the zones holding it

vars == <<agents, agentsRef, agentStatesRef, lightingContainerRef, dragStateRef,
          pressTarget, selectedAgentIdRef, selectedZoneLabelRef, selectedAgent,
          selectedZone, now, emitted, meetingMode, intervalId, destroyed, app,
          pressTarget2, hoveredZoneLabelRef, qx, qy, qzone, qhits>>

canvasVars == <<agents, agentsRef, agentStatesRef, lightingContainerRef, dragStateRef,
                pressTarget, selectedAgentIdRef, selectedZoneLabelRef, selectedAgent,
                selectedZone, now, emitted, meetingMode, intervalId, destroyed, app,
                pressTarget2, hoveredZoneLabelRef>>

\* the store's switch and the component's lifecycle
lifeVars == <<meetingMode, intervalId, destroyed, app>>

probeVars == <<qx, qy, qzone, qhits>>

---------------------------------------------------------------------------
(* Program constants *)

CANVAS_WIDTH == 900
CANVAS_HEIGHT == 440
ANIM_DURATION == 600
DRAG_THRESHOLD == 5

NULL == "null"

\* mutant: the Whiteboard zone starts on the right edge of Workstations
zones_Touching ==
    << [x |-> 20,  y |-> 20,  w |-> 220, h |-> 180, label |-> "Workstations"],
       [x |-> 240, y |-> 20,  w |-> 230, h |-> 180, label |-> "Whiteboard"],
       [x |-> 480, y |-> 20,  w |-> 180, h |-> 180, label |-> "Server Room"],
       [x |-> 670, y |-> 20,  w |-> 210, h |-> 180, label |-> "Library"],
       [x |-> 20,  y |-> 220, w |-> 420, h |-> 200, label |-> "Conference"],
       [x |-> 450, y |-> 220, w |-> 220, h |-> 200, label |-> "Break Room"],
       [x |-> 680, y |-> 220, w |-> 200, h |-> 200, label |-> "Mailroom / Outbox"] >>

zones ==
    << [x |-> 20,  y |-> 20,  w |-> 220, h |-> 180, label |-> "Workstations"],
       [x |-> 250, y |-> 20,  w |-> 220, h |-> 180, label |-> "Whiteboard"],
       [x |-> 480, y |-> 20,  w |-> 180, h |-> 180, label |-> "Server Room"],
       [x |-> 670, y |-> 20,  w |-> 210, h |-> 180, label |-> "Library"],
       [x |-> 20,  y |-> 220, w |-> 420, h |-> 200, label |-> "Conference"],
       [x |-> 450, y |-> 220, w |-> 220, h |-> 200, label |-> "Break Room"],
       [x |-> 680, y |-> 220, w |-> 200, h |-> 200, label |-> "Mailroom / Outbox"] >>

zoneToLocation ==
    [ l \in {zones[i].label : i \in 1..Len(zones)} |->
        CASE l = "Workstations"      -> "Desk"
          [] l = "Whiteboard"        -> "Whiteboard"
          [] l = "Server Room"       -> "ServerRoom"
          [] l = "Library"           -> "Library"
          [] l = "Conference"        -> "Conference"
          [] l = "Break Room"        -> "BreakRoom"
          [] l = "Mailroom / Outbox" -> "Mailroom" ]

---------------------------------------------------------------------------
(* Bounds of the model *)

MaxTime == 900          \* the clock stops advancing here
ClockStep == 300        \* granularity of the clock: progress 0.5 and 1

Ids == {"a1", "a2"}

\* positions the roster may give an agent: for a1 its position in INITIAL_AGENTS
\* (Whiteboard zone) and a point of the Workstations zone, for a2 its position in
\* INITIAL_AGENTS
RosterPoints(id) == IF id = "a1" THEN { <<260, 130>>, <<100, 100>> } ELSE { <<320, 160>> }

\* where the pointer goes down, relative to the container's origin
PressOffset == <<2, -1>>

\* where the pointer may be at a pointermove while it holds agent id: for a1
\* pressed at (260,130), container displacements of (2,1), (5,0) and (-160,-30);
\* the pointer that holds a2 goes up where it went down
MovePoints(id) ==
    IF id = "a1" THEN { <<264, 130>>, <<267, 129>>, <<102, 99>> } ELSE { }

ClickZones == { "Whiteboard" }

\* the zones the pointer may enter and leave
HoverZones == { "Whiteboard", "Workstations" }

Snapshots ==
    UNION { { f \in [S -> UNION { RosterPoints(id) : id \in Ids }] :
                \A id \in S : f[id] \in RosterPoints(id) } : S \in SUBSET Ids }

---------------------------------------------------------------------------
(* Pure functions *)

Abs(n) == IF n < 0 THEN -n ELSE n

Inside(zone, x, y) ==
    x >= zone.x /\ x <= zone.x + zone.w /\ y >= zone.y /\ y <= zone.y + zone.h

RECURSIVE ScanZones(_, _, _)
ScanZones(i, x, y) ==
    IF i > Len(zones) THEN NULL
    ELSE IF Inside(zones[i], x, y) THEN zones[i].label
    ELSE ScanZones(i + 1, x, y)

getZoneForPosition(x, y) == ScanZones(1, x, y)

\* every zone whose bounds hold the point
ZonesHolding(x, y) == { zones[i].label : i \in { j \in 1..Len(zones) : Inside(zones[j], x, y) } }

\* mutant: the progress is not clamped
ClampElapsed_NoClamp(elapsed) == elapsed

\* progress = min(elapsed / ANIM_DURATION, 1), kept as the clamped elapsed time
ClampElapsed(elapsed) == IF elapsed >= ANIM_DURATION THEN ANIM_DURATION ELSE elapsed

\* display + (target - display) * (1 - (1 - progress)^2), with progress = e / D:
\* 1 - (1 - e/D)^2 = (2eD - e^2) / D^2
Eased(display, target, e) ==
    display + ((target - display) * (2 * e * ANIM_DURATION - e * e))
                \div (ANIM_DURATION * ANIM_DURATION)

---------------------------------------------------------------------------
(* Events sent to the host application *)

SelectionChanged(kind, id, members) ==
    [type |-> "selectionChanged", kind |-> kind, id |-> id, x |-> 0, y |-> 0,
     location |-> NULL, members |-> members]

PositionCommitted(id, x, y, location) ==
    [type |-> "positionCommitted", kind |-> "entity", id |-> id, x |-> x, y |-> y,
     location |-> location, members |-> {}]

---------------------------------------------------------------------------
(* Handlers, as functions of the state they read *)

\* the selection refs and the two pieces of React state
Selection ==
    [selectedAgentIdRef |-> selectedAgentIdRef, selectedZoneLabelRef |-> selectedZoneLabelRef,
     selectedAgent |-> selectedAgent, selectedZone |-> selectedZone]

\* mutant: the stage click clears the agent selection only
StageClick_KeepsZone(sel) ==
    [sel EXCEPT !.selectedAgentIdRef = NULL, !.selectedAgent = NULL]

\* app.stage.on("click")
StageClick(sel) ==
    [selectedAgentIdRef |-> NULL, selectedZoneLabelRef |-> NULL,
     selectedAgent |-> NULL, selectedZone |-> <<>>]

\* mutant: the members are the tracked agents rendered inside the zone
ZoneClickSel_Rendered(sel, label, roster) ==
    [selectedAgentIdRef |-> NULL, selectedZoneLabelRef |-> label,
     selectedAgent |-> NULL,
     selectedZone |-> << [label |-> label,
                          agents |-> { a \in DOMAIN agentStatesRef :
                                         getZoneForPosition(agentStatesRef[a].containerX,
                                                            agentStatesRef[a].containerY)
                                           = label }] >>]

\* g.on("click") of the zone with this label
ZoneClickSel(sel, label, roster) ==
    [selectedAgentIdRef |-> NULL, selectedZoneLabelRef |-> label,
     selectedAgent |-> NULL,
     selectedZone |-> << [label |-> label,
                          agents |-> { a \in DOMAIN roster :
                                         getZoneForPosition(roster[a][1], roster[a][2]) = label }] >>]

\* mutant: an agent click does not replace an agent that is already selected
AgentClickSel_FirstWins(sel, agentId, roster) ==
    IF sel.selectedAgentIdRef # NULL THEN sel
    ELSE IF agentId \in DOMAIN roster
    THEN [selectedAgentIdRef |-> agentId, selectedZoneLabelRef |-> NULL,
          selectedAgent |-> agentId, selectedZone |-> <<>>]
    ELSE [sel EXCEPT !.selectedAgentIdRef = agentId, !.selectedZoneLabelRef = NULL]

\* mutant: the agent click leaves the zone selection in place
AgentClickSel_KeepsZone(sel, agentId, roster) ==
    IF agentId \in DOMAIN roster
    THEN [sel EXCEPT !.selectedAgentIdRef = agentId, !.selectedAgent = agentId]
    ELSE [sel EXCEPT !.selectedAgentIdRef = agentId]

\* container.on("click") of the agent created for agentId
AgentClickSel(sel, agentId, roster) ==
    IF agentId \in DOMAIN roster
    THEN [selectedAgentIdRef |-> agentId, selectedZoneLabelRef |-> NULL,
          selectedAgent |-> agentId, selectedZone |-> <<>>]
    ELSE [sel EXCEPT !.selectedAgentIdRef = agentId, !.selectedZoneLabelRef = NULL]

\* mutant: the ticker also interpolates an agent that is being dragged
Ticker_NoDragGuard(S, t) ==
    [id \in DOMAIN S |->
        LET elapsed == t - S[id].animStart
            e == ClampElapsed(elapsed)
            cx == Eased(S[id].displayX, S[id].targetX, e)
            cy == Eased(S[id].displayY, S[id].targetY, e)
        IN  IF e >= ANIM_DURATION
            THEN [S[id] EXCEPT !.containerX = cx, !.containerY = cy,
                               !.displayX = S[id].targetX, !.displayY = S[id].targetY]
            ELSE [S[id] EXCEPT !.containerX = cx, !.containerY = cy]]

\* mutant: the ticker stands still while the meeting mode is on
Ticker_HaltsInMeeting(S, t) ==
    [id \in DOMAIN S |->
        IF S[id].isDragging \/ meetingMode THEN S[id]
        ELSE LET elapsed == t - S[id].animStart
                 e == ClampElapsed(elapsed)
                 cx == Eased(S[id].displayX, S[id].targetX, e)
                 cy == Eased(S[id].displayY, S[id].targetY, e)
             IN  IF e >= ANIM_DURATION
                 THEN [S[id] EXCEPT !.containerX = cx, !.containerY = cy,
                                    !.displayX = S[id].targetX, !.displayY = S[id].targetY]
                 ELSE [S[id] EXCEPT !.containerX = cx, !.containerY = cy]]

\* app.ticker.add callback at time t
Ticker(S, t) ==
    [id \in DOMAIN S |->
        IF S[id].isDragging THEN S[id]
        ELSE LET elapsed == t - S[id].animStart
                 e == ClampElapsed(elapsed)
                 cx == Eased(S[id].displayX, S[id].targetX, e)
                 cy == Eased(S[id].displayY, S[id].targetY, e)
             IN  IF e >= ANIM_DURATION
                 THEN [S[id] EXCEPT !.containerX = cx, !.containerY = cy,
                                    !.displayX = S[id].targetX, !.displayY = S[id].targetY]
                 ELSE [S[id] EXCEPT !.containerX = cx, !.containerY = cy]]

\* mutant: a re-target in the instant of an earlier one keeps the earlier target
ReconcileStates_FirstWins(S, snapshot, t) ==
    [id \in DOMAIN snapshot |->
        IF id \in DOMAIN S
        THEN IF ~S[id].isDragging /\ ~(S[id].animStart = t /\ t > 0)
             THEN [S[id] EXCEPT !.displayX = S[id].containerX, !.displayY = S[id].containerY,
                                !.targetX = snapshot[id][1], !.targetY = snapshot[id][2],
                                !.animStart = t]
             ELSE S[id]
        ELSE [containerX |-> snapshot[id][1], containerY |-> snapshot[id][2],
              displayX |-> snapshot[id][1], displayY |-> snapshot[id][2],
              targetX |-> snapshot[id][1], targetY |-> snapshot[id][2],
              animStart |-> t, isDragging |-> FALSE]]

\* mutant: the re-target keeps the old display position
ReconcileStates_NoSnap(S, snapshot, t) ==
    [id \in DOMAIN snapshot |->
        IF id \in DOMAIN S
        THEN IF ~S[id].isDragging
             THEN [S[id] EXCEPT !.targetX = snapshot[id][1], !.targetY = snapshot[id][2],
                                !.animStart = t]
             ELSE S[id]
        ELSE [containerX |-> snapshot[id][1], containerY |-> snapshot[id][2],
              displayX |-> snapshot[id][1], displayY |-> snapshot[id][2],
              targetX |-> snapshot[id][1], targetY |-> snapshot[id][2],
              animStart |-> t, isDragging |-> FALSE]]

\* mutant: the re-target does not skip an agent that is being dragged
ReconcileStates_NoDragGuard(S, snapshot, t) ==
    [id \in DOMAIN snapshot |->
        IF id \in DOMAIN S
        THEN [S[id] EXCEPT !.displayX = S[id].containerX, !.displayY = S[id].containerY,
                           !.targetX = snapshot[id][1], !.targetY = snapshot[id][2],
                           !.animStart = t]
        ELSE [containerX |-> snapshot[id][1], containerY |-> snapshot[id][2],
              displayX |-> snapshot[id][1], displayY |-> snapshot[id][2],
              targetX |-> snapshot[id][1], targetY |-> snapshot[id][2],
              animStart |-> t, isDragging |-> FALSE]]

\* the [agents] effect body, once lightingContainerRef is set
ReconcileStates(S, snapshot, t) ==
    [id \in DOMAIN snapshot |->
        IF id \in DOMAIN S
        THEN IF ~S[id].isDragging
             THEN [S[id] EXCEPT !.displayX = S[id].containerX, !.displayY = S[id].containerY,
                                !.targetX = snapshot[id][1], !.targetY = snapshot[id][2],
                                !.animStart = t]
             ELSE S[id]
        ELSE [containerX |-> snapshot[id][1], containerY |-> snapshot[id][2],
              displayX |-> snapshot[id][1], displayY |-> snapshot[id][2],
              targetX |-> snapshot[id][1], targetY |-> snapshot[id][2],
              animStart |-> t, isDragging |-> FALSE]]

Reconcile(S, ready, snapshot, t) ==
    IF ready THEN ReconcileStates(S, snapshot, t) ELSE S

\* mutant: any movement at all counts as a drag
Commits_AnyMove(S, drag) ==
    /\ drag.agentId \in DOMAIN S
    /\ \/ Abs(S[drag.agentId].containerX - drag.startX) > 0
       \/ Abs(S[drag.agentId].containerY - drag.startY) > 0

\* endDrag: the threshold test
Commits(S, drag) ==
    /\ drag.agentId \in DOMAIN S
    /\ \/ Abs(S[drag.agentId].containerX - drag.startX) > DRAG_THRESHOLD
       \/ Abs(S[drag.agentId].containerY - drag.startY) > DRAG_THRESHOLD

\* mutant: a drag that is not committed sends the agent back to the drag start
EndDragStates_SnapsBack(S, drag) ==
    IF drag.agentId \notin DOMAIN S THEN S
    ELSE LET st == S[drag.agentId] IN
         IF Commits(S, drag)
         THEN [S EXCEPT ![drag.agentId] =
                  [st EXCEPT !.isDragging = FALSE,
                             !.displayX = st.containerX, !.displayY = st.containerY,
                             !.targetX = st.containerX, !.targetY = st.containerY]]
         ELSE [S EXCEPT ![drag.agentId] =
                  [st EXCEPT !.isDragging = FALSE,
                             !.targetX = drag.startX, !.targetY = drag.startY]]

\* endDrag: what it leaves in agentStatesRef
EndDragStates(S, drag) ==
    IF drag.agentId \notin DOMAIN S THEN S
    ELSE LET st == S[drag.agentId] IN
         IF Commits(S, drag)
         THEN [S EXCEPT ![drag.agentId] =
                  [st EXCEPT !.isDragging = FALSE,
                             !.displayX = st.containerX, !.displayY = st.containerY,
                             !.targetX = st.containerX, !.targetY = st.containerY]]
         ELSE [S EXCEPT ![drag.agentId] = [st EXCEPT !.isDragging = FALSE]]

\* mutant: the zone is inferred from the drag start, not from the drop point
CommitEvents_ZoneOfStart(S, drag) ==
    IF Commits(S, drag)
    THEN LET newX == S[drag.agentId].containerX
             newY == S[drag.agentId].containerY
             zoneName == getZoneForPosition(drag.startX, drag.startY)
             location == IF zoneName # NULL THEN zoneToLocation[zoneName] ELSE "undefined"
         IN  << PositionCommitted(drag.agentId, newX, newY, location) >>
    ELSE << >>

\* endDrag: the call of updateAgentPositionRef.current, as the event it sends
CommitEvents(S, drag) ==
    IF Commits(S, drag)
    THEN LET newX == S[drag.agentId].containerX
             newY == S[drag.agentId].containerY
             zoneName == getZoneForPosition(newX, newY)
             location == IF zoneName # NULL THEN zoneToLocation[zoneName] ELSE "undefined"
         IN  << PositionCommitted(drag.agentId, newX, newY, location) >>
    ELSE << >>

\* the store's tick: while the meeting mode is on it publishes no roster,
\* otherwise a roster of the same agents with the positions it has chosen
tick(roster, frozen) ==
    IF frozen THEN { } ELSE { s \in Snapshots : DOMAIN s = DOMAIN roster }

\* the store's updateAgentPosition
updateAgentPosition(roster, agentId, x, y) ==
    [a \in DOMAIN roster |-> IF a = agentId THEN <<x, y>> ELSE roster[a]]

---------------------------------------------------------------------------
(* The canvas: initial state and actions *)

\* INITIAL_AGENTS in full: the twelve agents with their declared location
InitialAgents ==
    [id \in {"a1", "a2", "a3", "a4", "a5", "a6", "a7", "a8", "a9", "a10", "a11", "a12"} |->
        CASE id = "a1"  -> [location |-> "Whiteboard", x |-> 260, y |-> 130]
          [] id = "a2"  -> [location |-> "Whiteboard", x |-> 320, y |-> 160]
          [] id = "a3"  -> [location |-> "ServerRoom", x |-> 540, y |-> 120]
          [] id = "a4"  -> [location |-> "ServerRoom", x |-> 600, y |-> 160]
          [] id = "a5"  -> [location |-> "Whiteboard", x |-> 220, y |-> 180]
          [] id = "a6"  -> [location |-> "Desk",       x |-> 140, y |-> 340]
          [] id = "a7"  -> [location |-> "Library",    x |-> 760, y |-> 140]
          [] id = "a8"  -> [location |-> "Mailroom",   x |-> 780, y |-> 360]
          [] id = "a9"  -> [location |-> "Mailroom",   x |-> 720, y |-> 340]
          [] id = "a10" -> [location |-> "BreakRoom",  x |-> 500, y |-> 360]
          [] id = "a11" -> [location |-> "Library",    x |-> 700, y |-> 180]
          [] id = "a12" -> [location |-> "BreakRoom",  x |-> 560, y |-> 390] ]

\* the store's initial roster (INITIAL_AGENTS, the agents of Ids)
INITIAL_AGENTS == [id \in Ids |-> IF id = "a1" THEN <<260, 130>> ELSE <<320, 160>>]

\* after mount: the effects have run once, app.init() is still pending, so the
\* [agents] effect has returned at its lightingContainer check
CanvasInit ==
    /\ agents = INITIAL_AGENTS
    /\ agentsRef = INITIAL_AGENTS
    /\ agentStatesRef = << >>
    /\ lightingContainerRef = FALSE
    /\ dragStateRef = << >>
    /\ pressTarget = NULL
    /\ selectedAgentIdRef = NULL
    /\ selectedZoneLabelRef = NULL
    /\ selectedAgent = NULL
    /\ selectedZone = << >>
    /\ now = 0
    /\ emitted = << >>
    /\ meetingMode = FALSE
    /\ intervalId = TRUE
    /\ destroyed = FALSE
    /\ app = "pending"
    /\ pressTarget2 = NULL
    /\ hoveredZoneLabelRef = NULL

ProbeInit ==
    /\ qx = 0
    /\ qy = 0
    /\ qzone = getZoneForPosition(0, 0)
    /\ qhits = ZonesHolding(0, 0)

Init == CanvasInit /\ ProbeInit

\* mutant: the init does not look at the destroyed flag when app.init() resolves
InitComplete_IgnoresDestroyed ==
    /\ app = "pending"
    /\ app' = "running"
    /\ lightingContainerRef' = TRUE
    /\ emitted' = << >>
    /\ UNCHANGED <<agents, agentsRef, agentStatesRef, dragStateRef, pressTarget,
                   selectedAgentIdRef, selectedZoneLabelRef, selectedAgent, selectedZone, now>>
    /\ UNCHANGED <<meetingMode, intervalId, destroyed, pressTarget2>>
    /\ UNCHANGED <<hoveredZoneLabelRef, probeVars>>

\* app.init() resolves: stage, zone graphics, handlers and ticker are set up,
\* unless the cleanup has run meanwhile (the app is then destroyed at once)
InitComplete ==
    /\ app = "pending"
    /\ app' = IF destroyed THEN "discarded" ELSE "running"
    /\ lightingContainerRef' = ~destroyed
    /\ emitted' = << >>
    /\ UNCHANGED <<agents, agentsRef, agentStatesRef, dragStateRef, pressTarget,
                   selectedAgentIdRef, selectedZoneLabelRef, selectedAgent, selectedZone, now>>
    /\ UNCHANGED <<meetingMode, intervalId, destroyed, pressTarget2>>
    /\ UNCHANGED <<hoveredZoneLabelRef, probeVars>>

\* the pointer's press target once the containers not in the new Map are destroyed
PressTargetAfter(target, S) ==
    IF target \in Ids /\ target \notin DOMAIN S THEN "gone" ELSE target

\* mutant: the [agents] effect recomputes the member list of the selected zone
StoreChange_RefreshesZone(snapshot) ==
    /\ agents' = snapshot
    /\ agentsRef' = IF destroyed THEN agentsRef ELSE snapshot
    /\ agentStatesRef' = Reconcile(agentStatesRef, lightingContainerRef /\ ~destroyed,
                                   snapshot, now)
    /\ pressTarget' = PressTargetAfter(pressTarget, agentStatesRef')
    /\ pressTarget2' = PressTargetAfter(pressTarget2, agentStatesRef')
    /\ emitted' = << >>
    /\ selectedZone' = IF selectedZone = << >> THEN selectedZone
                       ELSE ZoneClickSel(Selection, selectedZone[1].label, snapshot).selectedZone
    /\ UNCHANGED <<lightingContainerRef, dragStateRef, selectedAgentIdRef,
                   selectedZoneLabelRef, selectedAgent, now>>
    /\ UNCHANGED lifeVars
    /\ UNCHANGED <<hoveredZoneLabelRef, probeVars>>

\* the store's roster changes: agentsRef is synced and the [agents] effect runs
\* (no effect of an unmounted component runs)
StoreChange(snapshot) ==
    /\ agents' = snapshot
    /\ agentsRef' = IF destroyed THEN agentsRef ELSE snapshot
    /\ agentStatesRef' = Reconcile(agentStatesRef, lightingContainerRef /\ ~destroyed,
                                   snapshot, now)
    /\ pressTarget' = PressTargetAfter(pressTarget, agentStatesRef')
    /\ pressTarget2' = PressTargetAfter(pressTarget2, agentStatesRef')
    /\ emitted' = << >>
    /\ UNCHANGED <<lightingContainerRef, dragStateRef, selectedAgentIdRef,
                   selectedZoneLabelRef, selectedAgent, selectedZone, now>>
    /\ UNCHANGED lifeVars
    /\ UNCHANGED <<hoveredZoneLabelRef, probeVars>>

AdvanceTime ==
    /\ now < MaxTime
    /\ now' = now + ClockStep
    /\ emitted' = << >>
    /\ UNCHANGED <<agents, agentsRef, agentStatesRef, lightingContainerRef, dragStateRef,
                   pressTarget, selectedAgentIdRef, selectedZoneLabelRef, selectedAgent,
                   selectedZone>>
    /\ UNCHANGED <<lifeVars, pressTarget2>>
    /\ UNCHANGED <<hoveredZoneLabelRef, probeVars>>

\* one display frame
Frame ==
    /\ lightingContainerRef
    /\ agentStatesRef' = Ticker(agentStatesRef, now)
    /\ emitted' = << >>
    /\ UNCHANGED <<agents, agentsRef, lightingContainerRef, dragStateRef, pressTarget,
                   selectedAgentIdRef, selectedZoneLabelRef, selectedAgent, selectedZone, now>>
    /\ UNCHANGED <<lifeVars, pressTarget2>>
    /\ UNCHANGED <<hoveredZoneLabelRef, probeVars>>

\* container.on("pointerdown"): the pointer goes down at container + PressOffset
PointerDown(agentId) ==
    /\ lightingContainerRef
    /\ pressTarget = NULL
    /\ agentId \in DOMAIN agentStatesRef
    /\ LET state == agentStatesRef[agentId]
           globalX == state.containerX + PressOffset[1]
           globalY == state.containerY + PressOffset[2]
       IN  /\ agentStatesRef' = [agentStatesRef EXCEPT ![agentId].isDragging = TRUE]
           /\ dragStateRef' = << [agentId |-> agentId,
                                  offsetX |-> globalX - state.containerX,
                                  offsetY |-> globalY - state.containerY,
                                  startX |-> state.containerX,
                                  startY |-> state.containerY] >>
    /\ pressTarget' = agentId
    /\ emitted' = << >>
    /\ UNCHANGED <<agents, agentsRef, lightingContainerRef, selectedAgentIdRef,
                   selectedZoneLabelRef, selectedAgent, selectedZone, now>>
    /\ UNCHANGED <<lifeVars, pressTarget2>>
    /\ UNCHANGED <<hoveredZoneLabelRef, probeVars>>

\* container.on("pointerdown") for a second pointer (a second finger on a touch
\* screen) that goes down on an agent while the first pointer is still down
PointerDown2(agentId) ==
    /\ lightingContainerRef
    /\ pressTarget # NULL
    /\ pressTarget2 = NULL
    /\ agentId \in DOMAIN agentStatesRef
    /\ LET state == agentStatesRef[agentId]
           globalX == state.containerX + PressOffset[1]
           globalY == state.containerY + PressOffset[2]
       IN  /\ agentStatesRef' = [agentStatesRef EXCEPT ![agentId].isDragging = TRUE]
           /\ dragStateRef' = << [agentId |-> agentId,
                                  offsetX |-> globalX - state.containerX,
                                  offsetY |-> globalY - state.containerY,
                                  startX |-> state.containerX,
                                  startY |-> state.containerY] >>
    /\ pressTarget2' = agentId
    /\ emitted' = << >>
    /\ UNCHANGED <<agents, agentsRef, lightingContainerRef, selectedAgentIdRef,
                   selectedZoneLabelRef, selectedAgent, selectedZone, now, pressTarget>>
    /\ UNCHANGED lifeVars
    /\ UNCHANGED <<hoveredZoneLabelRef, probeVars>>

\* app.stage.on("pointermove") with the pointer, which went down on agent
\* held, at point p
PointerMove(held, p) ==
    /\ lightingContainerRef
    /\ (pressTarget # NULL \/ pressTarget2 # NULL)
    /\ dragStateRef # << >>
    /\ dragStateRef[1].agentId = held
    /\ LET drag == dragStateRef[1]
           globalX == p[1]
           globalY == p[2]
       IN  /\ drag.agentId \in DOMAIN agentStatesRef
           /\ agentStatesRef' = [agentStatesRef EXCEPT
                                   ![drag.agentId].containerX = globalX - drag.offsetX,
                                   ![drag.agentId].containerY = globalY - drag.offsetY]
    /\ emitted' = << >>
    /\ UNCHANGED <<agents, agentsRef, lightingContainerRef, dragStateRef, pressTarget,
                   selectedAgentIdRef, selectedZoneLabelRef, selectedAgent, selectedZone, now>>
    /\ UNCHANGED <<lifeVars, pressTarget2>>
    /\ UNCHANGED <<hoveredZoneLabelRef, probeVars>>

\* mutant: the zone's click handler lets the event bubble to the stage
StopsPropagation_ZoneBubbles(kind) == kind = "agent"

\* does the click handler of a target of this kind call event.stopPropagation()
StopsPropagation(kind) == kind \in {"agent", "zone"}

\* the click handler the event system runs after the stage's pointerup handler
\* The click is dispatched to the topmost display object under the pointer (an
\* agent container lies above the zone graphics, both are children of the
\* lighting container) and then bubbles to the stage unless the target's
\* handler has called event.stopPropagation().
ClickSel(kind, arg, sel, roster) ==
    LET own == CASE kind = "agent" -> AgentClickSel(sel, arg, roster)
                 [] kind = "zone"  -> ZoneClickSel(sel, arg, roster)
                 [] kind = "stage" -> StageClick(sel)
                 [] OTHER          -> sel
    IN  IF kind \in {"agent", "zone"} /\ ~StopsPropagation(kind)
        THEN StageClick(own)
        ELSE own

\* the setSelectedAgent / setSelectedZone calls of the handlers that run, as events
ClickEvents(kind, arg, sel1, roster) ==
    LET bubbled == IF kind \in {"agent", "zone"} /\ ~StopsPropagation(kind)
                   THEN << SelectionChanged("none", NULL, {}) >>
                   ELSE << >>
    IN  CASE kind = "agent" ->
               (IF arg \in DOMAIN roster THEN << SelectionChanged("entity", arg, {}) >>
                                          ELSE << >>) \o bubbled
          [] kind = "zone"  ->
               << SelectionChanged("zone", arg,
                                   ZoneClickSel(Selection, arg, roster).selectedZone[1].agents) >>
               \o bubbled
          [] kind = "stage" -> << SelectionChanged("none", NULL, {}) >>
          [] OTHER          -> << >>

\* A pointer-up inside the stage: endDrag (stage "pointerup" / "pointerupoutside"),
\* then the click handler of the click target, then, when endDrag has called
\* updateAgentPosition, the store's new roster and the effects it triggers.
Release(kind, arg) ==
    LET hasDrag == dragStateRef # << >>
        commit  == hasDrag /\ Commits(agentStatesRef, dragStateRef[1])
        S1      == IF hasDrag THEN EndDragStates(agentStatesRef, dragStateRef[1])
                              ELSE agentStatesRef
        ev1     == IF hasDrag THEN CommitEvents(agentStatesRef, dragStateRef[1]) ELSE << >>
        sel1    == ClickSel(kind, arg, Selection, agentsRef)
        ev2     == ClickEvents(kind, arg, sel1, agentsRef)
        roster1 == IF commit
                   THEN updateAgentPosition(agents, ev1[1].id, ev1[1].x, ev1[1].y)
                   ELSE agents
    IN  /\ dragStateRef' = << >>
        /\ selectedAgentIdRef' = sel1.selectedAgentIdRef
        /\ selectedZoneLabelRef' = sel1.selectedZoneLabelRef
        /\ selectedAgent' = sel1.selectedAgent
        /\ selectedZone' = sel1.selectedZone
        /\ emitted' = ev1 \o ev2
        /\ agents' = roster1
        /\ agentsRef' = roster1
        /\ agentStatesRef' = IF commit
                             THEN Reconcile(S1, lightingContainerRef, roster1, now)
                             ELSE S1
        /\ UNCHANGED <<lightingContainerRef, now>>
        /\ UNCHANGED lifeVars
    /\ UNCHANGED <<hoveredZoneLabelRef, probeVars>>

\* the pointer that went down on an agent goes up inside the canvas
PointerUp ==
    /\ lightingContainerRef
    /\ pressTarget # NULL
    /\ pressTarget' = NULL
    /\ UNCHANGED pressTarget2
    /\ IF pressTarget \in Ids
       THEN Release("agent", pressTarget)
       ELSE \/ Release("stage", NULL)
            \/ Release("none", NULL)

\* the second pointer goes up inside the canvas
PointerUp2 ==
    /\ lightingContainerRef
    /\ pressTarget2 # NULL
    /\ pressTarget2' = NULL
    /\ UNCHANGED pressTarget
    /\ IF pressTarget2 \in Ids
       THEN Release("agent", pressTarget2)
       ELSE \/ Release("stage", NULL)
            \/ Release("none", NULL)

\* the pointer that went down on an agent goes up outside the canvas
PointerUpOutside ==
    /\ lightingContainerRef
    /\ pressTarget # NULL
    /\ pressTarget' = NULL
    /\ UNCHANGED pressTarget2
    /\ Release("none", NULL)

\* pointer-down and pointer-up on a zone background
ZoneClick(label) ==
    /\ lightingContainerRef
    /\ pressTarget = NULL
    /\ UNCHANGED <<pressTarget, pressTarget2>>
    /\ Release("zone", label)

\* pointer-down and pointer-up on the stage, outside every zone and agent
BackgroundClick ==
    /\ lightingContainerRef
    /\ pressTarget = NULL
    /\ UNCHANGED <<pressTarget, pressTarget2>>
    /\ Release("stage", NULL)

\* mutant: the tick changes the store's roster but the [agents] effect does not
\* run before the next frame
Tick_EffectLate ==
    /\ intervalId
    /\ \E snapshot \in tick(agents, meetingMode) :
          /\ agents' = snapshot
          /\ agentsRef' = snapshot
    /\ emitted' = << >>
    /\ UNCHANGED <<agentStatesRef, lightingContainerRef, dragStateRef, pressTarget,
                   selectedAgentIdRef, selectedZoneLabelRef, selectedAgent, selectedZone, now>>
    /\ UNCHANGED <<lifeVars, pressTarget2>>
    /\ UNCHANGED <<hoveredZoneLabelRef, probeVars>>

\* mutant: entering a zone also makes it the selected zone
ZonePointerOver_Selects(label) ==
    /\ lightingContainerRef
    /\ hoveredZoneLabelRef' = label
    /\ selectedZoneLabelRef' = label
    /\ emitted' = << >>
    /\ UNCHANGED <<agents, agentsRef, agentStatesRef, lightingContainerRef, dragStateRef,
                   pressTarget, selectedAgentIdRef, selectedAgent,
                   selectedZone, now, pressTarget2>>
    /\ UNCHANGED lifeVars
    /\ UNCHANGED probeVars

\* g.on("pointerover") of the zone with this label
ZonePointerOver(label) ==
    /\ lightingContainerRef
    /\ hoveredZoneLabelRef' = label
    /\ emitted' = << >>
    /\ UNCHANGED <<agents, agentsRef, agentStatesRef, lightingContainerRef, dragStateRef,
                   pressTarget, selectedAgentIdRef, selectedZoneLabelRef, selectedAgent,
                   selectedZone, now, pressTarget2>>
    /\ UNCHANGED lifeVars
    /\ UNCHANGED probeVars

\* g.on("pointerout") of the zone with this label
ZonePointerOut(label) ==
    /\ lightingContainerRef
    /\ hoveredZoneLabelRef' = IF hoveredZoneLabelRef = label THEN NULL
                                                             ELSE hoveredZoneLabelRef
    /\ emitted' = << >>
    /\ UNCHANGED <<agents, agentsRef, agentStatesRef, lightingContainerRef, dragStateRef,
                   pressTarget, selectedAgentIdRef, selectedZoneLabelRef, selectedAgent,
                   selectedZone, now, pressTarget2>>
    /\ UNCHANGED lifeVars
    /\ UNCHANGED probeVars

\* the 900 ms interval fires and calls the store's tick
Tick ==
    /\ intervalId
    /\ IF tick(agents, meetingMode) = { }
       THEN /\ emitted' = << >>
            /\ UNCHANGED <<agents, agentsRef, agentStatesRef, lightingContainerRef,
                           dragStateRef, pressTarget, selectedAgentIdRef,
                           selectedZoneLabelRef, selectedAgent, selectedZone, now>>
            /\ UNCHANGED <<lifeVars, pressTarget2>>
            /\ UNCHANGED <<hoveredZoneLabelRef, probeVars>>
       ELSE \E snapshot \in tick(agents, meetingMode) : StoreChange(snapshot)

\* the "Company Meeting" button: the store's triggerMeeting
TriggerMeeting ==
    /\ meetingMode' = ~meetingMode
    /\ emitted' = << >>
    /\ UNCHANGED <<agents, agentsRef, agentStatesRef, lightingContainerRef, dragStateRef,
                   pressTarget, selectedAgentIdRef, selectedZoneLabelRef, selectedAgent,
                   selectedZone, now, intervalId, destroyed, app, pressTarget2>>
    /\ UNCHANGED <<hoveredZoneLabelRef, probeVars>>

\* mutant: the cleanup leaves the tick interval running
Unmount_KeepsInterval ==
    /\ ~destroyed
    /\ destroyed' = TRUE
    /\ app' = IF app = "running" THEN "destroyed" ELSE app
    /\ agentStatesRef' = << >>
    /\ lightingContainerRef' = FALSE
    /\ dragStateRef' = << >>
    /\ pressTarget' = NULL
    /\ pressTarget2' = NULL
    /\ emitted' = << >>
    /\ UNCHANGED <<agents, agentsRef, selectedAgentIdRef, selectedZoneLabelRef,
                   selectedAgent, selectedZone, now, meetingMode, intervalId>>
    /\ UNCHANGED <<hoveredZoneLabelRef, probeVars>>

\* the component unmounts: the cleanups of the init effect and of the interval effect
Unmount ==
    /\ ~destroyed
    /\ destroyed' = TRUE
    /\ app' = IF app = "running" THEN "destroyed" ELSE app
    /\ agentStatesRef' = << >>
    /\ lightingContainerRef' = FALSE
    /\ dragStateRef' = << >>
    /\ intervalId' = FALSE
    /\ pressTarget' = NULL
    /\ pressTarget2' = NULL
    /\ emitted' = << >>
    /\ UNCHANGED <<agents, agentsRef, selectedAgentIdRef, selectedZoneLabelRef,
                   selectedAgent, selectedZone, now, meetingMode>>
    /\ UNCHANGED <<hoveredZoneLabelRef, probeVars>>

Next ==
    \/ InitComplete
    \/ \E snapshot \in Snapshots : StoreChange(snapshot)
    \/ AdvanceTime
    \/ Frame
    \/ \E agentId \in Ids : PointerDown(agentId)
    \/ \E id \in Ids : \E p \in MovePoints(id) : PointerMove(id, p)
    \/ PointerUp
    \/ PointerUpOutside
    \/ \E label \in ClickZones : ZoneClick(label)
    \/ BackgroundClick
    \/ Tick
    \/ Unmount

Spec == Init /\ [][Next]_vars

---------------------------------------------------------------------------
(* The canvas left alone by the pointer while the meeting switch is used *)

MeetingNext ==
    \/ InitComplete
    \/ \E snapshot \in Snapshots : StoreChange(snapshot)
    \/ AdvanceTime
    \/ Frame
    \/ Tick
    \/ TriggerMeeting

MeetingSpec == Init /\ [][MeetingNext]_vars

---------------------------------------------------------------------------
(* The canvas on a touch screen: two pointers may be down at once *)

TouchNext ==
    \/ InitComplete
    \/ \E snapshot \in Snapshots : StoreChange(snapshot)
    \/ \E agentId \in Ids : PointerDown(agentId)
    \/ \E agentId \in Ids : PointerDown2(agentId)
    \/ \E id \in Ids : \E p \in MovePoints(id) : PointerMove(id, p)
    \/ PointerUp
    \/ PointerUp2
    \/ PointerUpOutside

TouchSpec == Init /\ [][TouchNext]_vars

---------------------------------------------------------------------------
(* The canvas with the pointer entering and leaving zones, the clock at rest *)

HoverNext ==
    \/ InitComplete
    \/ \E snapshot \in Snapshots : StoreChange(snapshot)
    \/ \E agentId \in Ids : PointerDown(agentId)
    \/ \E id \in Ids : \E p \in MovePoints(id) : PointerMove(id, p)
    \/ PointerUp
    \/ \E label \in ClickZones : ZoneClick(label)
    \/ BackgroundClick
    \/ \E label \in HoverZones : ZonePointerOver(label)
    \/ \E label \in HoverZones : ZonePointerOut(label)

HoverSpec == Init /\ [][HoverNext]_vars

---------------------------------------------------------------------------
(* The hit-test on its own: every point of the canvas is handed to it *)

ProbeAt(x, y) ==
    /\ qx' = x
    /\ qy' = y
    /\ qzone' = getZoneForPosition(x, y)
    /\ qhits' = ZonesHolding(x, y)
    /\ UNCHANGED canvasVars

ProbeRight == qx < CANVAS_WIDTH /\ ProbeAt(qx + 1, qy)

ProbeDown == qy < CANVAS_HEIGHT /\ ProbeAt(qx, qy + 1)

ProbeNext == ProbeRight \/ ProbeDown

ZoneSpec == Init /\ [][ProbeNext]_vars

---------------------------------------------------------------------------
(* Vocabulary of the properties *)

Tracked(e) == e \in DOMAIN agentStatesRef

\* a step in which the roster changes and the [agents] effect runs
ReconcileStep == \E snapshot \in Snapshots : StoreChange(snapshot)

\* a step in which a pointer that went down on an agent goes up
ReleaseStep == PointerUp \/ PointerUpOutside

\* a DragState exists, for an agent that is tracked
HeldDrag == dragStateRef # << >> /\ Tracked(dragStateRef[1].agentId)

\* the pointer is still on the container it went down on
OnPressed == HeldDrag /\ pressTarget = dragStateRef[1].agentId

\* square of the distance between the dragged container and the drag start
Displacement2 ==
    LET drag == dragStateRef[1]
        dx == agentStatesRef[drag.agentId].containerX - drag.startX
        dy == agentStatesRef[drag.agentId].containerY - drag.startY
    IN  dx * dx + dy * dy

Threshold2 == DRAG_THRESHOLD * DRAG_THRESHOLD

HasCommit(events) == \E i \in 1..Len(events) : events[i].type = "positionCommitted"

SelectionVars == <<selectedAgentIdRef, selectedZoneLabelRef, selectedAgent, selectedZone>>

---------------------------------------------------------------------------
(* C1: selection exclusivity.  In every reachable state at most one of the  *)
(* selected entity and the selected zone is non-null, in the refs and in    *)
(* the state behind the two info panels.                                    *)
C1_SelectionExclusive ==
    /\ ~(selectedAgentIdRef # NULL /\ selectedZoneLabelRef # NULL)
    /\ ~(selectedAgent # NULL /\ selectedZone # << >>)

\* a zone is selected after an agent has been dragged to another zone and selected
C1_Witness ==
    /\ selectedZoneLabelRef = "Whiteboard"
    /\ selectedAgentIdRef = NULL
    /\ selectedZone # << >>
    /\ Tracked("a1") /\ agentStatesRef["a1"].targetX = 100
    /\ Len(emitted) = 1 /\ emitted[1].kind = "zone"

(* C2: drag exclusivity.  A reconcile whose snapshot contains an entity     *)
(* that is being dragged leaves that entity's displayPosition and rendered  *)
(* position as they were, whatever position the snapshot gives it.          *)
C2_DragExclusive ==
    [][ \A e \in Ids :
          (Tracked(e) /\ agentStatesRef[e].isDragging /\ e \in DOMAIN agents' /\ ReconcileStep)
          => /\ e \in DOMAIN agentStatesRef'
             /\ agentStatesRef'[e].displayX = agentStatesRef[e].displayX
             /\ agentStatesRef'[e].displayY = agentStatesRef[e].displayY
             /\ agentStatesRef'[e].containerX = agentStatesRef[e].containerX
             /\ agentStatesRef'[e].containerY = agentStatesRef[e].containerY ]_vars

\* a1 is being dragged, has been moved, and the roster meanwhile gives it a
\* position that is not its target
C2_Witness ==
    /\ Tracked("a1") /\ agentStatesRef["a1"].isDragging
    /\ "a1" \in DOMAIN agents
    /\ agents["a1"] # <<agentStatesRef["a1"].targetX, agentStatesRef["a1"].targetY>>
    /\ agentStatesRef["a1"].containerX # agentStatesRef["a1"].displayX

(* C3 as stated: a roster position that arrived while the entity was       *)
(* dragged is applied once the drag has ended, at the latest by the next     *)
(* frame; so after every frame the target of each tracked entity that is     *)
(* not being dragged is the position the roster gives it.                    *)
C3_DeferredApplied ==
    [][ \A e \in Ids :
          (Tracked(e) /\ ~agentStatesRef[e].isDragging /\ e \in DOMAIN agents /\ Frame)
          => /\ agentStatesRef'[e].targetX = agents[e][1]
             /\ agentStatesRef'[e].targetY = agents[e][2] ]_vars

(* C3 amended: a roster position that arrives through reconcile for an      *)
(* entity while it is dragged is skipped for that entity, not queued: the   *)
(* reconcile leaves its target alone, a drag end that does not commit       *)
(* leaves its target what it was at pointer-down, and a roster position     *)
(* becomes the target at a reconcile that finds the entity not dragged.     *)
C3_SkippedNotQueued ==
    [][ \A e \in Ids : Tracked(e) =>
          /\ (agentStatesRef[e].isDragging /\ e \in DOMAIN agents' /\ ReconcileStep)
             => /\ agentStatesRef'[e].targetX = agentStatesRef[e].targetX
                /\ agentStatesRef'[e].targetY = agentStatesRef[e].targetY
          /\ (HeldDrag /\ dragStateRef[1].agentId = e /\ ReleaseStep /\ ~HasCommit(emitted'))
             => /\ agentStatesRef'[e].targetX = agentStatesRef[e].targetX
                /\ agentStatesRef'[e].targetY = agentStatesRef[e].targetY
                /\ ~agentStatesRef'[e].isDragging
          /\ (~agentStatesRef[e].isDragging /\ e \in DOMAIN agents' /\ ReconcileStep)
             => /\ agentStatesRef'[e].targetX = agents'[e][1]
                /\ agentStatesRef'[e].targetY = agents'[e][2] ]_vars

\* a1 has been released without a commit and its target is still not the
\* position the roster gave it during the drag
C3_Witness ==
    /\ Tracked("a1") /\ ~agentStatesRef["a1"].isDragging
    /\ dragStateRef = << >> /\ pressTarget = NULL
    /\ "a1" \in DOMAIN agents
    /\ agents["a1"] = <<100, 100>>
    /\ agentStatesRef["a1"].targetX = 260 /\ agentStatesRef["a1"].targetY = 130

(* C4: click versus drag.  A pointer-up on the pressed entity with a        *)
(* displacement from the drag start below the threshold selects that        *)
(* entity, sends selectionChanged for it and sends no positionCommitted;    *)
(* and whenever a positionCommitted is sent, it is for the dragged entity   *)
(* and the displacement is above the threshold.                             *)
C4_ClickBelowThreshold ==
    [][ /\ (OnPressed /\ Displacement2 < Threshold2 /\ PointerUp)
           => /\ selectedAgentIdRef' = pressTarget
              /\ selectedAgent' = pressTarget
              /\ emitted' = << SelectionChanged("entity", pressTarget, {}) >>
        /\ HasCommit(emitted')
           => /\ HeldDrag
              /\ Displacement2 > Threshold2
              /\ \A i \in 1..Len(emitted') :
                    emitted'[i].type = "positionCommitted"
                    => emitted'[i].id = dragStateRef[1].agentId ]_vars

\* a1, moved by (2,1) while held, has been selected by the pointer-up and no
\* position was committed
C4_Witness ==
    /\ selectedAgentIdRef = "a1"
    /\ emitted = << SelectionChanged("entity", "a1", {}) >>
    /\ Tracked("a1")
    /\ agentStatesRef["a1"].containerX = 262 /\ agentStatesRef["a1"].containerY = 131
    /\ agentStatesRef["a1"].targetX = 260
    /\ agents["a1"] = <<260, 130>>

(* C5 as stated: a pointer-up on the pressed entity with a displacement     *)
(* from the drag start greater than or equal to the threshold always sends  *)
(* positionCommitted for that entity.                                       *)
C5_CommitAtThreshold ==
    [][ (OnPressed /\ Displacement2 >= Threshold2 /\ PointerUp)
        => \E i \in 1..Len(emitted') :
              /\ emitted'[i].type = "positionCommitted"
              /\ emitted'[i].id = dragStateRef[1].agentId ]_vars

(* C6 as stated: a pointer-up on the pressed entity that commits a position *)
(* (a genuine drag) changes no selection: refs and panels stay as they were *)
C6_DragKeepsSelection ==
    [][ (OnPressed /\ PointerUp /\ HasCommit(emitted'))
        => UNCHANGED SelectionVars ]_vars

\* the position the interpolation gives entity e at time t
InterpolatedX(e, t) ==
    Eased(agentStatesRef[e].displayX, agentStatesRef[e].targetX,
          ClampElapsed(t - agentStatesRef[e].animStart))

InterpolatedY(e, t) ==
    Eased(agentStatesRef[e].displayY, agentStatesRef[e].targetY,
          ClampElapsed(t - agentStatesRef[e].animStart))

InFlight(e) ==
    /\ now - agentStatesRef[e].animStart > 0
    /\ now - agentStatesRef[e].animStart < ANIM_DURATION
    /\ <<agentStatesRef[e].displayX, agentStatesRef[e].displayY>>
         # <<agentStatesRef[e].targetX, agentStatesRef[e].targetY>>

(* C7 as stated: a reconcile that re-targets a non-dragged entity whose      *)
(* animation is in flight (progress strictly between 0 and 1) leaves its    *)
(* displayPosition at the interpolated position of that instant, which is   *)
(* neither the prior target nor the prior displayPosition, and sets         *)
(* animationStartTime to now.                                               *)
C7_SnapsToInterpolatedNow ==
    [][ \A e \in Ids :
          (Tracked(e) /\ ~agentStatesRef[e].isDragging /\ InFlight(e)
             /\ e \in DOMAIN agents' /\ ReconcileStep)
          => /\ agentStatesRef'[e].displayX = InterpolatedX(e, now)
             /\ agentStatesRef'[e].displayY = InterpolatedY(e, now)
             /\ <<agentStatesRef'[e].displayX, agentStatesRef'[e].displayY>>
                  # <<agentStatesRef[e].displayX, agentStatesRef[e].displayY>>
             /\ <<agentStatesRef'[e].displayX, agentStatesRef'[e].displayY>>
                  # <<agentStatesRef[e].targetX, agentStatesRef[e].targetY>>
             /\ agentStatesRef'[e].animStart = now ]_vars

(* C7 amended: a reconcile that re-targets a non-dragged entity leaves its  *)
(* displayPosition at the position currently rendered for it (the container *)
(* position), its target at the roster position and animationStartTime at   *)
(* now; the rendered position is the interpolated position of the instant   *)
(* of the last frame: each frame sets it, for a non-dragged entity, to      *)
(* display + (target - display) * (1 - (1 - p)^2) at that frame's progress. *)
C7_SnapsToRendered ==
    [][ /\ ReconcileStep
           => \A e \in Ids :
                (Tracked(e) /\ ~agentStatesRef[e].isDragging /\ e \in DOMAIN agents')
                => /\ agentStatesRef'[e].displayX = agentStatesRef[e].containerX
                   /\ agentStatesRef'[e].displayY = agentStatesRef[e].containerY
                   /\ agentStatesRef'[e].containerX = agentStatesRef[e].containerX
                   /\ agentStatesRef'[e].containerY = agentStatesRef[e].containerY
                   /\ agentStatesRef'[e].targetX = agents'[e][1]
                   /\ agentStatesRef'[e].targetY = agents'[e][2]
                   /\ agentStatesRef'[e].animStart = now
        /\ Frame
           => \A e \in Ids :
                (Tracked(e) /\ ~agentStatesRef[e].isDragging)
                => /\ agentStatesRef'[e].containerX = InterpolatedX(e, now)
                   /\ agentStatesRef'[e].containerY = InterpolatedY(e, now) ]_vars

\* a1 has just been re-targeted in flight: its display position is the rendered
\* position of the last frame, between the two roster points
C7_Witness ==
    /\ Tracked("a1") /\ ~agentStatesRef["a1"].isDragging
    /\ agentStatesRef["a1"].animStart = now /\ now > 0
    /\ agentStatesRef["a1"].displayX = agentStatesRef["a1"].containerX
    /\ agentStatesRef["a1"].displayX > 100 /\ agentStatesRef["a1"].displayX < 260
    /\ agentStatesRef["a1"].displayY > 100 /\ agentStatesRef["a1"].displayY < 130
    /\ agents["a1"] = <<agentStatesRef["a1"].targetX, agentStatesRef["a1"].targetY>>

(* C8: convergence.  For a tracked entity that is not being dragged, a      *)
(* frame that runs once ANIM_DURATION has elapsed since its last re-target  *)
(* leaves displayPosition and the rendered position equal to its target,    *)
(* and so does every later frame.                                           *)
C8_Convergence ==
    [][ \A e \in Ids :
          (Tracked(e) /\ ~agentStatesRef[e].isDragging
             /\ now - agentStatesRef[e].animStart >= ANIM_DURATION /\ Frame)
          => /\ agentStatesRef'[e].targetX = agentStatesRef[e].targetX
             /\ agentStatesRef'[e].targetY = agentStatesRef[e].targetY
             /\ agentStatesRef'[e].displayX = agentStatesRef[e].targetX
             /\ agentStatesRef'[e].displayY = agentStatesRef[e].targetY
             /\ agentStatesRef'[e].containerX = agentStatesRef[e].targetX
             /\ agentStatesRef'[e].containerY = agentStatesRef[e].targetY ]_vars

\* a1, re-targeted in flight at 300 ms from a position between the roster
\* points, rests on its target at 900 ms
C8_Witness ==
    /\ Tracked("a1") /\ ~agentStatesRef["a1"].isDragging
    /\ agentStatesRef["a1"].animStart = ClockStep
    /\ now - agentStatesRef["a1"].animStart >= ANIM_DURATION
    /\ agentStatesRef["a1"].displayX = agentStatesRef["a1"].targetX
    /\ agentStatesRef["a1"].containerX = agentStatesRef["a1"].targetX
    /\ agentStatesRef["a1"].containerY = agentStatesRef["a1"].targetY
    /\ agentStatesRef["a1"].targetX = 100
    /\ "a2" \notin DOMAIN agents

C10_ZonesDisjoint ==
    /\ Cardinality(qhits) <= 1
    /\ (qzone = NULL) <=> (qhits = {})
    /\ (qzone # NULL) => (qhits = {qzone})

\* the probe is on the bottom right corner of the Workstations bounds
C10_Witness ==
    /\ qx = 240 /\ qy = 200
    /\ qzone = "Workstations"
    /\ qhits = {"Workstations"}

---------------------------------------------------------------------------
(* C11: stale selection.  A reconcile whose snapshot no longer contains the *)
(* selected entity cancels the selection: after it selectedAgentIdRef and   *)
(* selectedAgent are null and selectionChanged({kind: "none"}) was sent.    *)
C11_StaleSelectionCancelled ==
    [][ (/\ lightingContainerRef
         /\ selectedAgentIdRef # NULL
         /\ Tracked(selectedAgentIdRef)
         /\ ReconcileStep
         /\ selectedAgentIdRef \notin DOMAIN agents')
        => /\ selectedAgentIdRef' = NULL
           /\ selectedAgent' = NULL
           /\ \E i \in 1..Len(emitted') : emitted'[i].kind = "none" ]_vars

(* C12: stale drag.  A reconcile whose snapshot no longer contains the      *)
(* dragged entity cancels the drag: no DragState remains after it, and      *)
(* until the pointer is released a pointer-move moves no entity and the     *)
(* pointer-up commits no position, even if the id is in the roster again.   *)
C12_StaleDragCancelled ==
    [][ /\ (/\ dragStateRef # << >>
            /\ Tracked(dragStateRef[1].agentId)
            /\ ReconcileStep
            /\ dragStateRef[1].agentId \notin DOMAIN agents')
           => dragStateRef' = << >>
        /\ (/\ pressTarget = "gone"
            /\ \E id \in Ids : \E p \in MovePoints(id) : PointerMove(id, p))
           => agentStatesRef' = agentStatesRef
        /\ (pressTarget = "gone" /\ ReleaseStep) => ~HasCommit(emitted') ]_vars

(* C13: registry = roster.  After every reconcile, the one for the roster   *)
(* present at mount included, the tracked ids are exactly the ids of the    *)
(* snapshot: once the scene exists, every state, being the state after the  *)
(* latest reconcile, has a VisualState for each entity of the roster and    *)
(* for no other id.                                                         *)
C13_TrackedIsSnapshot ==
    lightingContainerRef => DOMAIN agentStatesRef = DOMAIN agents

C15_TeardownReleases ==
    destroyed => /\ agentStatesRef = << >>
                 /\ dragStateRef = << >>
                 /\ ~ENABLED Frame
                 /\ ~ENABLED Tick

\* torn down after a1 had been selected, with time passing and the store
\* changing the roster after the teardown
C15_Witness ==
    /\ destroyed
    /\ selectedAgentIdRef = "a1"
    /\ now >= 2 * ClockStep
    /\ agents # agentsRef

(* C16: drag lifetime.  After every pointer-up and pointer-up-outside no    *)
(* DragState exists and no tracked entity has isDragging = true, whether    *)
(* or not a position was committed.                                         *)
C16_ReleaseEndsDrag ==
    [][ (PointerUp \/ PointerUp2 \/ PointerUpOutside)
        => /\ dragStateRef' = << >>
           /\ \A e \in DOMAIN agentStatesRef' : ~agentStatesRef'[e].isDragging ]_vars

(* C17: the pointer drives a dragged entity.  While an entity is being      *)
(* dragged, a pointer-move at point p puts its rendered position at p minus *)
(* the offset captured at pointer-down and changes nothing else of it, and  *)
(* a frame leaves every entity whose isDragging is true exactly as it was.  *)
C17_PointerDrivesDragged ==
    [][ /\ \A id \in Ids : \A p \in MovePoints(id) :
             (/\ dragStateRef # << >>
              /\ dragStateRef[1].agentId = id
              /\ Tracked(id)
              /\ agentStatesRef[id].isDragging
              /\ PointerMove(id, p))
             => /\ agentStatesRef'[id].containerX = p[1] - PressOffset[1]
                /\ agentStatesRef'[id].containerY = p[2] - PressOffset[2]
                /\ agentStatesRef'[id] =
                     [agentStatesRef[id] EXCEPT !.containerX = p[1] - PressOffset[1],
                                                !.containerY = p[2] - PressOffset[2]]
        /\ \A e \in Ids :
             (Tracked(e) /\ agentStatesRef[e].isDragging /\ Frame)
             => agentStatesRef'[e] = agentStatesRef[e] ]_vars

\* a1, held by the pointer and moved to the Workstations point while its
\* animation to another target was in flight, is still where the pointer put
\* it 600 ms after the re-target
C17_Witness ==
    /\ HeldDrag
    /\ dragStateRef[1].agentId = "a1"
    /\ agentStatesRef["a1"].isDragging
    /\ agentStatesRef["a1"].containerX = 100 /\ agentStatesRef["a1"].containerY = 100
    /\ <<agentStatesRef["a1"].targetX, agentStatesRef["a1"].targetY>> = <<260, 130>>
    /\ agentStatesRef["a1"].displayX # agentStatesRef["a1"].targetX
    /\ now - agentStatesRef["a1"].animStart >= ANIM_DURATION

\* the zone with this label
ZoneOf(label) == zones[CHOOSE i \in 1..Len(zones) : zones[i].label = label]

\* the tracked entities rendered within the bounds of the zone
RenderedIn(label) ==
    { e \in DOMAIN agentStatesRef :
        Inside(ZoneOf(label), agentStatesRef[e].containerX, agentStatesRef[e].containerY) }

\* the entities of the roster whose roster position is within the bounds of the zone
RosterIn(label) ==
    { e \in DOMAIN agents : Inside(ZoneOf(label), agents[e][1], agents[e][2]) }

(* C18 as stated: a click on a zone background selects that zone, clears    *)
(* the entity selection and reports as members exactly the tracked entities *)
(* whose rendered position is within the zone's bounds (here for states in  *)
(* which the tracked entities are those of the roster).                     *)
C18_MembersAreRendered ==
    [][ \A label \in ClickZones :
          (DOMAIN agentStatesRef = DOMAIN agents /\ ZoneClick(label))
          => /\ selectedZoneLabelRef' = label
             /\ selectedAgentIdRef' = NULL /\ selectedAgent' = NULL
             /\ selectedZone' = << [label |-> label, agents |-> RenderedIn(label)] >> ]_vars

(* C18 as the code has it: a click on a zone background selects that zone,  *)
(* clears the entity selection and reports as members exactly the entities  *)
(* of the roster whose roster position is within the zone's bounds,         *)
(* wherever they are rendered at that moment.                               *)
C18_MembersAreRoster ==
    [][ \A label \in ClickZones :
          ZoneClick(label)
          => /\ selectedZoneLabelRef' = label
             /\ selectedAgentIdRef' = NULL /\ selectedAgent' = NULL
             /\ selectedZone' = << [label |-> label, agents |-> RosterIn(label)] >>
             /\ emitted' = << SelectionChanged("zone", label, RosterIn(label)) >> ]_vars

\* the Whiteboard zone has just been clicked: a1 is reported as a member, by
\* its roster position, while it is still rendered in the Workstations zone
C18_Witness ==
    /\ selectedZoneLabelRef = "Whiteboard"
    /\ selectedAgentIdRef = NULL
    /\ Len(emitted) = 1 /\ emitted[1].kind = "zone" /\ "a1" \in emitted[1].members
    /\ selectedZone # << >> /\ "a1" \in selectedZone[1].agents
    /\ Tracked("a1")
    /\ "a1" \in RenderedIn("Workstations")

(* C19: entity click.  A pointer-up on the entity the pointer went down on, *)
(* with a displacement that is not a drag, selects that entity and clears   *)
(* the zone selection, whatever was selected before: the selected entity is *)
(* the last one clicked.                                                    *)
C19_LastClickedSelected ==
    [][ \A e \in Ids :
          (/\ pressTarget = e
           /\ (dragStateRef = << >> \/ ~Commits(agentStatesRef, dragStateRef[1]))
           /\ PointerUp)
          => /\ selectedAgentIdRef' = e
             /\ selectedAgent' = e
             /\ selectedZoneLabelRef' = NULL
             /\ selectedZone' = << >>
             /\ emitted' = << SelectionChanged("entity", e, {}) >> ]_vars

\* a2 has just been clicked and is the selected entity, with a1 rendered in
\* the Workstations zone
C19_Witness ==
    /\ selectedAgentIdRef = "a2"
    /\ selectedAgent = "a2"
    /\ selectedZoneLabelRef = NULL /\ selectedZone = << >>
    /\ emitted = << SelectionChanged("entity", "a2", {}) >>
    /\ dragStateRef = << >>
    /\ Tracked("a1") /\ agents["a1"] = <<100, 100>>
    /\ agentStatesRef["a1"].containerX = 100

(* C20: background click.  A click on the stage with no entity and no zone  *)
(* under the pointer leaves no entity and no zone selected, in the refs and *)
(* in the state behind the panels, whatever was selected before, and sends  *)
(* selectionChanged({kind: "none"}).                                        *)
C20_BackgroundClears ==
    [][ BackgroundClick
        => /\ selectedAgentIdRef' = NULL
           /\ selectedZoneLabelRef' = NULL
           /\ selectedAgent' = NULL
           /\ selectedZone' = << >>
           /\ emitted' = << SelectionChanged("none", NULL, {}) >> ]_vars

\* the background has just been clicked and nothing is selected, with a1
\* rendered in the Workstations zone
C20_Witness ==
    /\ emitted = << SelectionChanged("none", NULL, {}) >>
    /\ selectedAgentIdRef = NULL /\ selectedZoneLabelRef = NULL
    /\ selectedAgent = NULL /\ selectedZone = << >>
    /\ Tracked("a1") /\ agentStatesRef["a1"].containerX = 100
    /\ Tracked("a2")

\* the events of these kinds among those the last handler sent
SentOfKind(events, kinds) == { i \in 1..Len(events) : events[i].kind \in kinds }

(* C21: one handler per click.  A click on an entity runs the entity's      *)
(* handler only: no zone becomes selected and the stage's clear-selection   *)
(* handler does not run, also when the entity is rendered inside a zone;    *)
(* a click on a zone does not run the stage's handler either.               *)
C21_ClickStopsAtTarget ==
    [][ /\ \A e \in Ids :
             (pressTarget = e /\ PointerUp)
             => /\ selectedAgentIdRef' = e
                /\ selectedZoneLabelRef' = NULL
                /\ selectedZone' = << >>
                /\ SentOfKind(emitted', {"zone", "none"}) = {}
        /\ \A label \in ClickZones :
             ZoneClick(label)
             => /\ selectedZoneLabelRef' = label
                /\ selectedZone' # << >>
                /\ SentOfKind(emitted', {"none"}) = {} ]_vars

\* a2, rendered inside the Whiteboard zone, has just been clicked: it is the
\* selection and the zone beneath it is not
C21_Witness ==
    /\ emitted = << SelectionChanged("entity", "a2", {}) >>
    /\ selectedAgentIdRef = "a2" /\ selectedAgent = "a2"
    /\ selectedZoneLabelRef = NULL /\ selectedZone = << >>
    /\ Tracked("a2") /\ "a2" \in RenderedIn("Whiteboard")

\* the registry after two runs of the [agents] effect with no frame between
\* them, the second one at time t2
TwiceReconciled(s1, s2, t2) ==
    ReconcileStates(ReconcileStates(agentStatesRef, s1, now), s2, t2)

(* C22: last write wins, no jump.  When reconcile runs several times for a  *)
(* non-dragged entity before a frame is rendered, its targetPosition is the *)
(* position of the last call, its displayPosition is the position that was  *)
(* rendered before the first call, and its rendered position has not moved. *)
C22_LastWriteWins ==
    lightingContainerRef =>
      \A e \in DOMAIN agentStatesRef :
        ~agentStatesRef[e].isDragging =>
          \A s1 \in Snapshots : \A s2 \in Snapshots : \A t2 \in {now, now + ClockStep} :
            (e \in DOMAIN s1 /\ e \in DOMAIN s2)
            => LET after == TwiceReconciled(s1, s2, t2)[e]
               IN  /\ <<after.targetX, after.targetY>> = s2[e]
                   /\ after.displayX = agentStatesRef[e].containerX
                   /\ after.displayY = agentStatesRef[e].containerY
                   /\ after.containerX = agentStatesRef[e].containerX
                   /\ after.containerY = agentStatesRef[e].containerY
                   /\ after.animStart = t2

\* a1, rendered between the two roster points, has been re-targeted in this
\* instant: it is displayed where it was rendered and aims at the roster point
C22_Witness ==
    /\ Tracked("a1") /\ ~agentStatesRef["a1"].isDragging
    /\ agentStatesRef["a1"].animStart = now /\ now >= 2 * ClockStep
    /\ agentStatesRef["a1"].containerX \notin {100, 260}
    /\ agentStatesRef["a1"].displayX = agentStatesRef["a1"].containerX
    /\ agentStatesRef["a1"].displayY = agentStatesRef["a1"].containerY
    /\ <<agentStatesRef["a1"].targetX, agentStatesRef["a1"].targetY>> = agents["a1"]

\* the target of a tracked entity
TargetOf(S, e) == <<S[e].targetX, S[e].targetY>>

C24_HoverLeavesState ==
    [][ \A label \in HoverZones :
          /\ ZonePointerOver(label) => hoveredZoneLabelRef' = label
          /\ ZonePointerOut(label)
             => hoveredZoneLabelRef' =
                  IF hoveredZoneLabelRef = label THEN NULL ELSE hoveredZoneLabelRef
          /\ (ZonePointerOver(label) \/ ZonePointerOut(label))
             => UNCHANGED <<selectedAgentIdRef, selectedZoneLabelRef, selectedAgent,
                            selectedZone, dragStateRef, agentStatesRef, agents,
                            agentsRef>> ]_vars

\* the pointer is over the Workstations zone while it holds a1, dragged there,
\* and while the Whiteboard zone is the selection
C24_Witness ==
    /\ hoveredZoneLabelRef = "Workstations"
    /\ selectedZoneLabelRef = "Whiteboard"
    /\ HeldDrag /\ dragStateRef[1].agentId = "a1"
    /\ agentStatesRef["a1"].isDragging
    /\ agentStatesRef["a1"].containerX = 100


(* C25: the dragging flag and the DragState agree.  In every reachable      *)
(* state a tracked entity has isDragging = true if and only if a DragState  *)
(* exists and names that entity, so at most one entity is flagged at a      *)
(* time; this also with two pointer-downs and no pointer-up in between, and *)
(* when the dragged entity is removed and added again by reconciles.        *)
C25_FlagIffDragState ==
    \A e \in DOMAIN agentStatesRef :
        agentStatesRef[e].isDragging
        <=> (dragStateRef # << >> /\ dragStateRef[1].agentId = e)


\* displayPosition, targetPosition and animationStartTime of a tracked entity
PathOf(S, e) == <<S[e].displayX, S[e].displayY, S[e].targetX, S[e].targetY, S[e].animStart>>

\* the DragState names entity e
Names(e) == dragStateRef # << >> /\ dragStateRef[1].agentId = e

(* C26: a drag that commits nothing restores the interpolation path.  From  *)
(* the pointer-down to a release within the threshold the entity's          *)
(* displayPosition, targetPosition and animationStartTime stay what they    *)
(* were before the pointer-down: the pointer-down leaves them, every step   *)
(* taken while the DragState names the entity leaves them, and the release  *)
(* leaves them and clears the dragging flag, so the next frame interpolates *)
(* from them again.                                                         *)
C26_NoCommitRestoresPath ==
    [][ \A e \in Ids :
          /\ PointerDown(e) => PathOf(agentStatesRef', e) = PathOf(agentStatesRef, e)
          /\ ( /\ Names(e)
               /\ e \in DOMAIN agentStatesRef'
               /\ ~(ReleaseStep /\ Commits(agentStatesRef, dragStateRef[1])) )
             => /\ Tracked(e)
                /\ PathOf(agentStatesRef', e) = PathOf(agentStatesRef, e)
                /\ ReleaseStep => ~agentStatesRef'[e].isDragging ]_vars

\* C26 for a drag during which no reconcile removes the entity: the steps
\* that find it tracked and flagged leave its path (holds under Spec)
C26_HeldWhileTracked ==
    [][ \A e \in Ids :
          /\ PointerDown(e) => PathOf(agentStatesRef', e) = PathOf(agentStatesRef, e)
          /\ ( /\ Names(e) /\ Tracked(e) /\ agentStatesRef[e].isDragging
               /\ e \in DOMAIN agentStatesRef'
               /\ ~(ReleaseStep /\ Commits(agentStatesRef, dragStateRef[1])) )
             => /\ PathOf(agentStatesRef', e) = PathOf(agentStatesRef, e)
                /\ ReleaseStep => ~agentStatesRef'[e].isDragging ]_vars


\* a click reaches a handler in this step
ClickStep == PointerUp \/ BackgroundClick \/ \E label \in ClickZones : ZoneClick(label)

(* C27: the member list of a selected zone is a snapshot.  It is computed   *)
(* at the zone click, and every step that changes it is a click: it is not  *)
(* a reconcile, not a periodic tick, not a position commit without a click  *)
(* (a release outside the canvas), not a frame; this also when entities     *)
(* have moved into or out of the zone meanwhile.                            *)
C27_MembersFrozen ==
    [][ selectedZone' # selectedZone
        => /\ ClickStep
           /\ ~(ReconcileStep \/ Tick \/ PointerUpOutside \/ Frame) ]_vars

\* the Whiteboard zone is selected with a1 among its members, and a release
\* outside the canvas has just committed a1 to a position outside that zone
C27_Witness ==
    /\ selectedZone # << >> /\ selectedZone[1].label = "Whiteboard"
    /\ "a1" \in selectedZone[1].agents
    /\ "a1" \in DOMAIN agents /\ "a1" \notin RosterIn("Whiteboard")
    /\ HasCommit(emitted)


(* C28: the initial roster's locations agree with the zones.  For every     *)
(* agent of INITIAL_AGENTS, getZoneForPosition at the agent's (x, y)        *)
(* returns a zone, and zoneToLocation maps that zone to the agent's         *)
(* declared location (checked where the probe stands on the agent's        *)
(* position).                                                               *)
C28_LocationMatchesZone ==
    \A a \in DOMAIN InitialAgents :
        (qx = InitialAgents[a].x /\ qy = InitialAgents[a].y)
        => /\ qzone # NULL
           /\ zoneToLocation[qzone] = InitialAgents[a].location


(* C29: teardown during the asynchronous initialisation.  If the cleanup    *)
(* runs while app.init() is pending, then when app.init() resolves the      *)
(* application is destroyed and nothing is set up: no scene container is    *)
(* attached, so no pointer handler and no per-frame callback can run, and   *)
(* no VisualState exists then or at any later time, whatever the store      *)
(* does.                                                                    *)
C29_LateInitAttachesNothing ==
    /\ [][ (destroyed /\ InitComplete)
           => /\ app' = "discarded"
              /\ ~lightingContainerRef'
              /\ agentStatesRef' = << >> ]_vars
    /\ []( (destroyed /\ app \in {"pending", "discarded"})
           => /\ ~lightingContainerRef
              /\ agentStatesRef = << >>
              /\ ~ENABLED Frame
              /\ ~ENABLED BackgroundClick
              /\ \A label \in ClickZones : ~ENABLED ZoneClick(label)
              /\ \A agentId \in Ids : ~ENABLED PointerDown(agentId) )

\* the cleanup ran before app.init() resolved, the application was destroyed
\* when it did, and the store has changed the roster since the cleanup
C29_Witness ==
    /\ destroyed /\ app = "discarded"
    /\ agents # agentsRef
    /\ agentStatesRef = << >>
    /\ ~lightingContainerRef

===========================================================================
